---- MODULE Spec2Model ----
(***************************************************************************)
(* Model of Scribe-Data's French noun formatter (format_nouns.py) and of   *)
(* the interactive CLI's run_request (cli/interactive.py).                 *)
(*                                                                         *)
(* Annotation strings ("form", raw genders) are sequences of one-character *)
(* strings, so that concatenation, split("/"), sorting and "/".join are    *)
(* computed character by character.  Wordforms are only ever compared for  *)
(* equality and used as dictionary keys; they are TLA+ strings.            *)
(***************************************************************************)
EXTENDS Integers, Sequences, FiniteSets, TLC

VARIABLES nouns_list, idx, nouns_formatted, pc,
          annotation, ordered_once, ordered_twice, opc,
          selected_languages, selected_data_types, overwrite,
          lang_i, type_i, calls, results, banner, rpc

fvars == <<nouns_list, idx, nouns_formatted, pc>>
ovars == <<annotation, ordered_once, ordered_twice, opc>>
rvars == <<selected_languages, selected_data_types, overwrite,
           lang_i, type_i, calls, results, banner, rpc>>
vars == <<nouns_list, idx, nouns_formatted, pc,
          annotation, ordered_once, ordered_twice, opc,
          selected_languages, selected_data_types, overwrite,
          lang_i, type_i, calls, results, banner, rpc>>

(***************************************************************************)
(* Bounds of the model.                                                    *)
(***************************************************************************)
MaxLen == 2

MaxTokens == 3

MaxSel == 2

(***************************************************************************)
(* Strings as character sequences.                                         *)
(***************************************************************************)
Empty == <<>>

Slash == <<"/">>

F == <<"F">>

M == <<"M">>

PL == <<"P", "L">>

Masculine == <<"m", "a", "s", "c", "u", "l", "i", "n", "e">>

Feminine == <<"f", "e", "m", "i", "n", "i", "n", "e">>

Q499327 == <<"Q", "4", "9", "9", "3", "2", "7">>

Q1775415 == <<"Q", "1", "7", "7", "5", "4", "1", "5">>

\* Code points of the characters an annotation token is made of.
Ord(c) ==
  CASE c = "/" -> 47
    [] c = "F" -> 70
    [] c = "L" -> 76
    [] c = "M" -> 77
    [] c = "P" -> 80

\* Python's str < str: lexicographic on code points, a proper prefix is smaller.
RECURSIVE StrLess(_, _)
StrLess(a, b) ==
  IF b = <<>> THEN FALSE
  ELSE IF a = <<>> THEN TRUE
  ELSE IF Head(a) = Head(b) THEN StrLess(Tail(a), Tail(b))
  ELSE Ord(Head(a)) < Ord(Head(b))

\* str.split("/"): always at least one token; "" gives [""].
RECURSIVE Split(_)
Split(s) ==
  IF \A k \in 1..Len(s) : s[k] # "/"
  THEN <<s>>
  ELSE LET k == CHOOSE j \in 1..Len(s) :
                  s[j] = "/" /\ \A h \in 1..(j - 1) : s[h] # "/"
       IN <<SubSeq(s, 1, k - 1)>> \o Split(SubSeq(s, k + 1, Len(s)))

\* "/".join(tokens)
RECURSIVE Join(_)
Join(tokens) ==
  IF tokens = <<>> THEN <<>>
  ELSE IF Len(tokens) = 1 THEN tokens[1]
  ELSE tokens[1] \o Slash \o Join(Tail(tokens))

\* sorted(S) for a set S of strings.
RECURSIVE SortSet(_)
SortSet(S) ==
  IF S = {} THEN <<>>
  ELSE LET m == CHOOSE x \in S : \A y \in S : ~StrLess(y, x)
       IN <<m>> \o SortSet(S \ {m})

\* sorted(l) for a list l of strings (duplicates kept).
RECURSIVE Insert(_, _)
Insert(x, l) ==
  IF l = <<>> THEN <<x>>
  ELSE IF StrLess(Head(l), x) THEN <<Head(l)>> \o Insert(x, Tail(l))
  ELSE <<x>> \o l

RECURSIVE SortList(_)
SortList(l) ==
  IF l = <<>> THEN <<>> ELSE Insert(Head(l), SortList(Tail(l)))

\* Drops an element equal to its predecessor.
RECURSIVE DropAdjacent(_)
DropAdjacent(l) ==
  IF Len(l) < 2 THEN l
  ELSE IF l[1] = l[2] THEN DropAdjacent(Tail(l))
  ELSE <<l[1]>> \o DropAdjacent(Tail(l))

NonEmpty(l) == SelectSeq(l, LAMBDA a : a # <<>>)

(***************************************************************************)
(* format_nouns.py: the helper functions.                                  *)
(***************************************************************************)
map_genders(wikidata_gender) ==
  IF wikidata_gender \in {Masculine, Q499327} THEN M
  ELSE IF wikidata_gender \in {Feminine, Q1775415} THEN F
  ELSE Empty

\* Mutants of the token normalisation: duplicates kept; duplicates dropped
\* only when adjacent in the unsorted list.
SortedKeepingDuplicates(tokens) == SortList(NonEmpty(tokens))

SortedAdjacentUnique(tokens) == SortList(DropAdjacent(NonEmpty(tokens)))

\* sorted([a for a in set(tokens) if a != ""])
SortedUnique(tokens) ==
  SortSet({a \in {tokens[k] : k \in 1..Len(tokens)} : a # <<>>})

single_annotations == {F, M, PL}

order_annotations(a) ==
  IF a \in single_annotations THEN a
  ELSE Join(SortedUnique(Split(a)))

(***************************************************************************)
(* format_nouns.py: the input records and the merge loop.                  *)
(***************************************************************************)
Words == {"a", "b", "c"}

\* Raw gender values of the input: the four values map_genders knows, and
\* two strings that can equal a stored form ("" and "M").
Genders == {Masculine, Feminine, Q499327, Q1775415, Empty, M}

Keys == {"singular", "plural", "gender"}

Rec(D, s, p, g) ==
  [k \in D |-> IF k = "singular" THEN s ELSE IF k = "plural" THEN p ELSE g]

Records == {Rec(D, s, p, g) : D \in SUBSET Keys, s \in Words, p \in Words, g \in Genders}

Has(r, k) == k \in DOMAIN r

\* d[k] = v on a dictionary d, whether or not k is already a key.
Put(d, k, v) == [x \in (DOMAIN d) \cup {k} |-> IF x = k THEN v ELSE d[x]]

PluralEntry == [plural |-> "isPlural", form |-> PL]

\* Mutant: the plural of a new singular gets no entry of its own.
SingularNewMergeNoPluralEntry(nf, r) ==
  LET s == r["singular"]
      form1 == IF Has(r, "gender") THEN map_genders(r["gender"]) ELSE Empty
  IN IF Has(r, "plural")
     THEN Put(nf, s, [plural |-> r["plural"], form |-> form1])
     ELSE Put(nf, s, [plural |-> "", form |-> form1])

\* Lines 69-92: the record's singular is not yet a key.
SingularNewMerge(nf, r) ==
  LET s == r["singular"]
      nf1 == Put(nf, s, [plural |-> "", form |-> Empty])
      nf2 == IF Has(r, "gender")
             THEN [nf1 EXCEPT ![s].form = map_genders(r["gender"])]
             ELSE nf1
  IN IF Has(r, "plural")
     THEN LET p == r["plural"]
              nf3 == [nf2 EXCEPT ![s].plural = p]
          IN IF p \notin DOMAIN nf3
             THEN Put(nf3, p, PluralEntry)
             ELSE [nf3 EXCEPT ![s].plural = p, ![s].form = @ \o Slash \o PL]
     ELSE nf2

\* Lines 95-104: the existing-singular branch reaches the read of the
\* entry's "gender" field, which no entry has (KeyError).
SingularExistingRaises(nf, r) ==
  /\ Has(r, "gender")
  /\ nf[r["singular"]].form = r["gender"]
  /\ "gender" \notin DOMAIN nf[r["singular"]]

\* Mutants: the new gender replaces the stored form; the record's plural
\* is stored on the existing entry.
SingularExistingMergeOverwrite(nf, r) ==
  LET s == r["singular"]
  IN IF Has(r, "gender") /\ nf[s].form # r["gender"]
     THEN [nf EXCEPT ![s].form = map_genders(r["gender"])]
     ELSE nf

SingularExistingMergeSetsPlural(nf, r) ==
  LET s == r["singular"]
      nf1 == IF Has(r, "gender") /\ nf[s].form # r["gender"]
             THEN [nf EXCEPT ![s].form = @ \o Slash \o map_genders(r["gender"])]
             ELSE nf
  IN IF Has(r, "plural") THEN [nf1 EXCEPT ![s].plural = r["plural"]] ELSE nf1

\* Lines 95-102: the record's singular is already a key.
SingularExistingMerge(nf, r) ==
  LET s == r["singular"]
  IN IF Has(r, "gender") /\ nf[s].form # r["gender"]
     THEN [nf EXCEPT ![s].form = @ \o Slash \o map_genders(r["gender"])]
     ELSE nf

\* Mutant: the plural entry is written without the membership test.
PluralOnlyMergeOverwrite(nf, r) == Put(nf, r["plural"], PluralEntry)

\* Lines 110-119: a record with a plural and no singular.
PluralOnlyMerge(nf, r) ==
  LET p == r["plural"]
  IN IF p \notin DOMAIN nf
     THEN Put(nf, p, PluralEntry)
     ELSE IF Has(r, "singular")
          THEN [nf EXCEPT ![r["singular"]].plural = p,
                          ![r["singular"]].form = @ \o Slash \o PL]
          ELSE nf

Merging == pc = "merge" /\ idx <= Len(nouns_list)

Current == nouns_list[idx]

NewSingular ==
  /\ Merging
  /\ Has(Current, "singular")
  /\ Current["singular"] \notin DOMAIN nouns_formatted
  /\ nouns_formatted' = SingularNewMerge(nouns_formatted, Current)
  /\ idx' = idx + 1
  /\ UNCHANGED <<nouns_list, pc>>
  /\ UNCHANGED <<ovars, rvars>>

ExistingSingular ==
  /\ Merging
  /\ Has(Current, "singular")
  /\ Current["singular"] \in DOMAIN nouns_formatted
  /\ ~SingularExistingRaises(nouns_formatted, Current)
  /\ nouns_formatted' = SingularExistingMerge(nouns_formatted, Current)
  /\ idx' = idx + 1
  /\ UNCHANGED <<nouns_list, pc>>
  /\ UNCHANGED <<ovars, rvars>>

\* The KeyError of line 104 ends the script with the mapping as it stands.
ExistingSingularKeyError ==
  /\ Merging
  /\ Has(Current, "singular")
  /\ Current["singular"] \in DOMAIN nouns_formatted
  /\ SingularExistingRaises(nouns_formatted, Current)
  /\ pc' = "error"
  /\ UNCHANGED <<nouns_list, idx, nouns_formatted>>
  /\ UNCHANGED <<ovars, rvars>>

PluralOnly ==
  /\ Merging
  /\ ~Has(Current, "singular")
  /\ Has(Current, "plural")
  /\ nouns_formatted' = PluralOnlyMerge(nouns_formatted, Current)
  /\ idx' = idx + 1
  /\ UNCHANGED <<nouns_list, pc>>
  /\ UNCHANGED <<ovars, rvars>>

\* A record with neither key falls through both tests.
Ignored ==
  /\ Merging
  /\ ~Has(Current, "singular")
  /\ ~Has(Current, "plural")
  /\ idx' = idx + 1
  /\ UNCHANGED <<nouns_list, nouns_formatted, pc>>
  /\ UNCHANGED <<ovars, rvars>>

\* Lines 121-124: every form is normalised; the re-sort by key changes the
\* order of the dictionary only, which a function does not carry.
Normalize ==
  /\ pc = "merge"
  /\ idx > Len(nouns_list)
  /\ nouns_formatted' =
       [k \in DOMAIN nouns_formatted |->
          [nouns_formatted[k] EXCEPT !.form = order_annotations(@)]]
  /\ pc' = "done"
  /\ UNCHANGED <<nouns_list, idx>>
  /\ UNCHANGED <<ovars, rvars>>

OrderIdle ==
  /\ annotation = Empty
  /\ ordered_once = Empty
  /\ ordered_twice = Empty
  /\ opc = "idle"

RunIdle ==
  /\ selected_languages = <<>>
  /\ selected_data_types = <<>>
  /\ overwrite = FALSE
  /\ lang_i = 1
  /\ type_i = 1
  /\ calls = <<>>
  /\ results = <<>>
  /\ banner = FALSE
  /\ rpc = "idle"

FormatIdle ==
  /\ nouns_list = <<>>
  /\ idx = 1
  /\ nouns_formatted = <<>>
  /\ pc = "idle"

Init ==
  /\ \E n \in 0..MaxLen : nouns_list \in [1..n -> Records]
  /\ idx = 1
  /\ nouns_formatted = <<>>
  /\ pc = "merge"
  /\ OrderIdle
  /\ RunIdle

Next ==
  \/ NewSingular
  \/ ExistingSingular
  \/ ExistingSingularKeyError
  \/ PluralOnly
  \/ Ignored
  \/ Normalize

Spec == Init /\ [][Next]_vars

(***************************************************************************)
(* order_annotations applied to an annotation and again to its result.     *)
(***************************************************************************)
AnnotationTokens == {Empty, F, M, PL}

OrderInit ==
  /\ \E n \in 1..MaxTokens :
       \E t \in [1..n -> AnnotationTokens] : annotation = Join(t)
  /\ ordered_once = Empty
  /\ ordered_twice = Empty
  /\ opc = "start"
  /\ FormatIdle
  /\ RunIdle

OrderOnce ==
  /\ opc = "start"
  /\ ordered_once' = order_annotations(annotation)
  /\ opc' = "once"
  /\ UNCHANGED <<annotation, ordered_twice>>
  /\ UNCHANGED <<fvars, rvars>>

OrderTwice ==
  /\ opc = "once"
  /\ ordered_twice' = order_annotations(ordered_once)
  /\ opc' = "twice"
  /\ UNCHANGED <<annotation, ordered_once>>
  /\ UNCHANGED <<fvars, rvars>>

OrderNext ==
  \/ OrderOnce
  \/ OrderTwice

SpecOrder == OrderInit /\ [][OrderNext]_vars

(***************************************************************************)
(* cli/interactive.py: run_request.  get_data is an external call whose    *)
(* boolean result is chosen freely.                                        *)
(***************************************************************************)
Languages == {"French", "German"}

DataTypes == {"nouns", "verbs"}

RunInit ==
  /\ \E n \in 0..MaxSel : selected_languages \in [1..n -> Languages]
  /\ \E n \in 0..MaxSel : selected_data_types \in [1..n -> DataTypes]
  /\ overwrite \in BOOLEAN
  /\ lang_i = 1
  /\ type_i = 1
  /\ calls = <<>>
  /\ results = <<>>
  /\ banner = FALSE
  /\ rpc = "start"
  /\ FormatIdle
  /\ OrderIdle

\* Mutant: a failed job ends the batch.
NextJobStopOnFailure(li, ti, ok) ==
  IF ~ok THEN <<Len(selected_languages) + 1, 1>>
  ELSE IF ti < Len(selected_data_types) THEN <<li, ti + 1>>
  ELSE <<li + 1, 1>>

\* Lines 199-220: the position of the nested loops after one iteration,
\* whatever get_data returned.
NextJob(li, ti, ok) ==
  IF ti < Len(selected_data_types) THEN <<li, ti + 1>> ELSE <<li + 1, 1>>

\* Lines 186-188: nothing selected, the error is printed and the function returns.
RunRejected ==
  /\ rpc = "start"
  /\ selected_languages = <<>> \/ selected_data_types = <<>>
  /\ rpc' = "done"
  /\ UNCHANGED <<selected_languages, selected_data_types, overwrite,
                 lang_i, type_i, calls, results, banner>>
  /\ UNCHANGED <<fvars, ovars>>

\* Lines 191-198: the loops are entered.
RunBegin ==
  /\ rpc = "start"
  /\ ~(selected_languages = <<>> \/ selected_data_types = <<>>)
  /\ lang_i' = 1
  /\ type_i' = 1
  /\ rpc' = "loop"
  /\ UNCHANGED <<selected_languages, selected_data_types, overwrite,
                 calls, results, banner>>
  /\ UNCHANGED <<fvars, ovars>>

\* Lines 200-220: one get_data call and its log line.
GetData ==
  /\ rpc = "loop"
  /\ lang_i <= Len(selected_languages)
  /\ \E ok \in BOOLEAN :
       /\ calls' = Append(calls, <<selected_languages[lang_i],
                                   selected_data_types[type_i]>>)
       /\ results' = Append(results, ok)
       /\ lang_i' = NextJob(lang_i, type_i, ok)[1]
       /\ type_i' = NextJob(lang_i, type_i, ok)[2]
  /\ UNCHANGED <<selected_languages, selected_data_types, overwrite, banner, rpc>>
  /\ UNCHANGED <<fvars, ovars>>

\* Lines 222-223: the banner.
RunFinish ==
  /\ rpc = "loop"
  /\ lang_i > Len(selected_languages)
  /\ banner' = overwrite
  /\ rpc' = "done"
  /\ UNCHANGED <<selected_languages, selected_data_types, overwrite,
                 lang_i, type_i, calls, results>>
  /\ UNCHANGED <<fvars, ovars>>

RunNext ==
  \/ RunRejected
  \/ RunBegin
  \/ GetData
  \/ RunFinish

SpecRun == RunInit /\ [][RunNext]_vars

(***************************************************************************)
(* Properties.                                                             *)
(***************************************************************************)
Started == pc \in {"merge", "done", "error"}

TokensOf(form) == {Split(form)[k] : k \in 1..Len(Split(form))}

\* C1: when the transform has completed, every wordform that is the singular
\* or the plural value of an input record is a key of the output mapping
\* (a mapping holds a key at most once).
AllWordformsAreKeys ==
  pc = "done" =>
    \A j \in 1..Len(nouns_list) : \A k \in {"singular", "plural"} :
      Has(nouns_list[j], k) => nouns_list[j][k] \in DOMAIN nouns_formatted

\* C2: the merge loop never ends in an error on a list of well-formed records.
MergeNeverRaises == pc # "error"

CanonicalForms ==
  { Empty, F, M, PL,
    F \o Slash \o M, F \o Slash \o PL, M \o Slash \o PL,
    F \o Slash \o M \o Slash \o PL }

\* C3: in the final output every form is empty or a "/"-joined list of
\* distinct tokens of {F, M, PL} in ascending order, none of them empty.
FormsCanonical ==
  pc = "done" =>
    \A k \in DOMAIN nouns_formatted : nouns_formatted[k].form \in CanonicalForms

\* Two records for one singular carry the same mapped gender next to PL:
\* the raw form F/PL/F is normalised to F/PL.
FormsCanonicalWitness ==
  /\ pc = "done"
  /\ Len(nouns_list) = 2
  /\ nouns_list[1] = [singular |-> "a", plural |-> "a", gender |-> Feminine]
  /\ nouns_list[2] = [singular |-> "a", gender |-> Q1775415]
  /\ nouns_formatted["a"].form = F \o Slash \o PL

\* C4: order_annotations applied to its own result returns that result.
OrderIdempotent == opc = "twice" => ordered_twice = ordered_once

\* An annotation whose tokens are out of order and one of them repeated.
OrderIdempotentWitness ==
  /\ opc = "twice"
  /\ annotation = M \o Slash \o F \o Slash \o M
  /\ ordered_once = F \o Slash \o M
  /\ ordered_twice = F \o Slash \o M

NewPairCase ==
  /\ Merging
  /\ Has(Current, "singular")
  /\ Has(Current, "plural")
  /\ Current["singular"] # Current["plural"]
  /\ Current["singular"] \notin DOMAIN nouns_formatted
  /\ Current["plural"] \notin DOMAIN nouns_formatted

NewPairResult ==
  /\ DOMAIN nouns_formatted' =
       DOMAIN nouns_formatted \cup {Current["singular"], Current["plural"]}
  /\ nouns_formatted'[Current["singular"]] =
       [plural |-> Current["plural"],
        form |-> IF Has(Current, "gender")
                 THEN map_genders(Current["gender"]) ELSE Empty]
  /\ nouns_formatted'[Current["plural"]] = [plural |-> "isPlural", form |-> PL]
  /\ \A k \in DOMAIN nouns_formatted : nouns_formatted'[k] = nouns_formatted[k]

\* C5: a record with singular s and a different plural p, neither of them a
\* key, adds s with plural p and the mapped gender (or "") as form, adds p
\* as {plural: "isPlural", form: "PL"}, and leaves every other entry alone.
NewPairAdded == [][NewPairCase => NewPairResult]_vars

NewPairAddedWitness ==
  /\ pc = "merge"
  /\ idx = 3
  /\ nouns_list[1] = [singular |-> "c", gender |-> Feminine]
  /\ nouns_list[2] = [singular |-> "a", plural |-> "b", gender |-> Masculine]
  /\ DOMAIN nouns_formatted = {"a", "b", "c"}
  /\ nouns_formatted["a"] = [plural |-> "b", form |-> M]
  /\ nouns_formatted["b"] = [plural |-> "isPlural", form |-> PL]
  /\ nouns_formatted["c"] = [plural |-> "", form |-> F]

\* C6: in the final output, the form of the entry of a record's singular
\* contains the token of that record's gender (M for masculine/Q499327,
\* F for feminine/Q1775415).
GenderTokenKept ==
  pc = "done" =>
    \A j \in 1..Len(nouns_list) :
      LET r == nouns_list[j]
      IN (Has(r, "singular") /\ Has(r, "gender")) =>
           /\ r["gender"] \in {Masculine, Q499327} =>
                M \in TokensOf(nouns_formatted[r["singular"]].form)
           /\ r["gender"] \in {Feminine, Q1775415} =>
                F \in TokensOf(nouns_formatted[r["singular"]].form)

GenderTokenKeptWitness ==
  /\ pc = "done"
  /\ Len(nouns_list) = 2
  /\ nouns_list[1] = [singular |-> "a", gender |-> Feminine]
  /\ nouns_list[2] = [singular |-> "a", gender |-> Masculine]
  /\ nouns_formatted["a"].form = F \o Slash \o M

JobsOf(langs, types) ==
  [k \in 1..(Len(langs) * Len(types)) |->
     <<langs[((k - 1) \div Len(types)) + 1], types[((k - 1) % Len(types)) + 1]>>]

\* C7: a finished run_request has called get_data once per (language, data
\* type) pair in language-major order and printed the banner exactly when
\* overwrite is set, if both selections are non-empty; otherwise it has made
\* no call.
RunCallsEveryPair ==
  rpc = "done" =>
    IF selected_languages # <<>> /\ selected_data_types # <<>>
    THEN /\ calls = JobsOf(selected_languages, selected_data_types)
         /\ banner = overwrite
    ELSE calls = <<>>

\* The first job failed and the three jobs after it were still run.
RunCallsEveryPairWitness ==
  /\ rpc = "done"
  /\ selected_languages = <<"French", "German">>
  /\ selected_data_types = <<"nouns", "verbs">>
  /\ results = <<FALSE, TRUE, FALSE, TRUE>>
  /\ calls = << <<"French", "nouns">>, <<"French", "verbs">>,
                <<"German", "nouns">>, <<"German", "verbs">> >>
  /\ overwrite
  /\ banner

\* C8: a record that creates its singular's entry and whose plural differs
\* from its singular leaves no PL token in that entry's form.
PLOnlyOnCollision ==
  [][(/\ Merging
      /\ Has(Current, "singular")
      /\ Has(Current, "plural")
      /\ Current["singular"] \notin DOMAIN nouns_formatted
      /\ Current["plural"] # Current["singular"])
     => PL \notin TokensOf(nouns_formatted'[Current["singular"]].form)]_vars

\* C9: a record without a singular leaves the mapping unchanged, except that
\* a plural that is not yet a key gets the entry {plural: "isPlural",
\* form: "PL"}.
PluralOnlyFrame ==
  [][(Merging /\ ~Has(Current, "singular")) =>
       IF Has(Current, "plural") /\ Current["plural"] \notin DOMAIN nouns_formatted
       THEN /\ DOMAIN nouns_formatted' = DOMAIN nouns_formatted \cup {Current["plural"]}
            /\ nouns_formatted'[Current["plural"]] = [plural |-> "isPlural", form |-> PL]
            /\ \A k \in DOMAIN nouns_formatted : nouns_formatted'[k] = nouns_formatted[k]
       ELSE nouns_formatted' = nouns_formatted]_vars

\* A plural-only record whose plural is already the key of a singular entry.
PluralOnlyFrameWitness ==
  /\ pc = "merge"
  /\ idx = 3
  /\ nouns_list[1] = [singular |-> "b", gender |-> Masculine]
  /\ nouns_list[2] = [plural |-> "b"]
  /\ DOMAIN nouns_formatted = {"b"}
  /\ nouns_formatted["b"] = [plural |-> "", form |-> M]

PluralFieldsAreKeys ==
  Started =>
    \A k \in DOMAIN nouns_formatted :
      nouns_formatted[k].plural \in {"", "isPlural"} \cup DOMAIN nouns_formatted

EntriesKeepPlural ==
  Started =>
    \A k \in DOMAIN nouns_formatted :
      /\ k \in DOMAIN nouns_formatted'
      /\ nouns_formatted'[k].plural = nouns_formatted[k].plural

\* C10: every plural field is "", "isPlural" or a key of the mapping, no key
\* is ever removed, and no step changes the plural field of an existing entry.
PluralFieldsStable == []PluralFieldsAreKeys /\ [][EntriesKeepPlural]_vars

\* A second record for an existing singular names another plural.
PluralFieldsStableWitness ==
  /\ pc = "done"
  /\ nouns_list = << [singular |-> "a", plural |-> "b"],
                     [singular |-> "a", plural |-> "c"] >>
  /\ nouns_formatted["a"].plural = "b"
  /\ DOMAIN nouns_formatted = {"a", "b"}

====
